---- MODULE Spec2Model ----
(***************************************************************************)
(* TerraStride: the run-capture session of the TerritoryCapture screen     *)
(* (src/mobile/app/(root)/map.tsx) over the grid tiling of                 *)
(* src/mobile/utils/gridUtils.ts.                                          *)
(*                                                                         *)
(* Numbers.  Positions lie on the equator.  A longitude is an integer      *)
(* number of metres of great-circle arc on the Haversine sphere            *)
(* (R = 6371000), so that calculateDistanceMeters is exact on them; a      *)
(* latitude is 0 or non-finite.  Planar (Mercator) metres are kept as      *)
(* integers scaled by HAVERSINE_R.  Durations are kept in milliseconds     *)
(* (1000 times the code's durationSeconds).  NaN stands for every          *)
(* non-finite IEEE value; the operators that receive it propagate it as    *)
(* the JavaScript operators do.                                            *)
(*                                                                         *)
(* The grid functions are also applied on their own (GridSpec) to points   *)
(* within a few hundred metres of the equator, where the Mercator y of a   *)
(* latitude is EARTH_RADIUS times its angle up to a relative 1e-10, and to *)
(* latitudes beyond the poles.  A corner coordinate, which the code gets   *)
(* by unprojecting planar metres, is kept as the exact ratio               *)
(* planar / EARTH_RADIUS by its numerator, in the scale of the planar      *)
(* metres.                                                                 *)
(*                                                                         *)
(* The balance-changing Lambda handlers (src/unnamed/part_021,             *)
(* src/unnamed/part_023, src/backend/crypto/receiveusdc) run as            *)
(* concurrent invocations over one user's custom:coin_balance              *)
(* (LambdaSpec); every await of a handler is a step of its own.            *)
(***************************************************************************)
EXTENDS Integers, Sequences, FiniteSets, TLC

\* ---------------------------------------------------------------- bounds
MaxSamples == 2
MaxClockTicks == 1
MaxRuns == 2
MaxTile == 0
MaxPaceMinutes == 99
MaxInvocations == 2
MaxAmount == 2
InitialBalance == 1
MaxCoords == 3
MaxRefreshes == 1
MaxEffects == 3

\* ------------------------------------------------------------- constants
EARTH_RADIUS == 6378137
HAVERSINE_R == 6371000
GRID_SIZE_METERS == 100
JUMP_THRESHOLD_M == 100
TIMER_INTERVAL_MS == 1000
T0 == 1000
NaN == -999999999
\* A pole's latitude (90 degrees) in metres of arc on the Haversine sphere.
POLE == 10007543

\* Positions the location provider delivers: three finite fixes on the
\* equator (60 m, 100 m and 160 m apart) and one fix with a non-finite
\* latitude.
SamplePoints ==
  { [latitude |-> 0, longitude |-> 0],
    [latitude |-> 0, longitude |-> 60],
    [latitude |-> 0, longitude |-> 160],
    [latitude |-> NaN, longitude |-> 0] }

VARIABLES
  mounted,                \* the TerritoryCapture component exists
  isRunningRef,
  isRunning,
  lastPositionRef,        \* <<>> is null, <<p>> a position
  lastUpdateTimeRef,
  capturedSquaresRef,     \* the Map, as its entries in insertion order
  initialPositionSetRef,
  currentPosition,        \* <<>> is null
  initialPosition,        \* <<>> is null
  elapsedTime,
  totalDistance,
  capturedSquaresDisplay,
  isSubmitting,
  clock,                  \* Date.now()
  pendingDialogs,         \* open "Finish Run?" alerts
  successAlert,           \* the "Success" alert is open
  inflight,               \* territory POST requests awaiting their response
  runId,                  \* number of runs started so far
  aborted,                \* runs that were left while still active
  nSamples,               \* positions delivered after the first of a mount
  ev,                     \* the handler that ran last, its input and its alert
  arg,                    \* GridSpec: the input the grid functions are applied to
  result,                 \* GridSpec: the function applied last and its value
  coinBalance,            \* LambdaSpec: the user's custom:coin_balance in Cognito
  solanaWallet,           \* LambdaSpec: the user has custom:solana_wallet
  transferred,            \* LambdaSpec: net USDC the handlers moved to the user
  lam,                    \* LambdaSpec: the invocations, each with its locals
  coords,                 \* useTerritories: the coords argument; <<>> is null
  territories,            \* useTerritories: the key whose response is shown
  loading,
  error,                  \* "" is null
  lastQueryRef,           \* << >> is null
  active,                 \* the effect whose `active` is still true
  requests,               \* territory GET requests awaiting their response
  nCoords,                \* setCurrentPosition calls so far
  nRefresh,               \* refresh() calls so far
  component,              \* TrackingSpec: the component that tracks the location
  tracking,               \* TrackingSpec: that component is mounted
  starts                  \* TrackingSpec: the runs of its tracking effect

vars ==
  << mounted, isRunningRef, isRunning, lastPositionRef, lastUpdateTimeRef,
     capturedSquaresRef, initialPositionSetRef, currentPosition,
     initialPosition, elapsedTime, totalDistance, capturedSquaresDisplay,
     isSubmitting, clock, pendingDialogs, successAlert, inflight, runId,
     aborted, nSamples, ev >>

gridVars == << arg, result >>

lambdaVars == << coinBalance, solanaWallet, transferred, lam >>

trackVars == << component, tracking, starts >>

hookVars ==
  << coords, territories, loading, error, lastQueryRef, active, requests,
     nCoords, nRefresh, trackVars >>

allVars == << vars, gridVars, lambdaVars, hookVars >>

\* ------------------------------------------------------- number helpers
IsNaN(n) == n = NaN

Abs(n) == IF n < 0 THEN -n ELSE n

StrUnsigned(n) == IF IsNaN(n) THEN "NaN" ELSE ToString(Abs(n))

\* `${n}`
Str(n) == IF IsNaN(n) THEN "NaN" ELSE ToString(n)

\* ------------------------------------------------------------ gridUtils
\* JavaScript's * on numbers that may be non-finite.
Times(a, b) == IF IsNaN(a) \/ IsNaN(b) THEN NaN ELSE a * b

\* A number of planar metres in the scale the planar metres are kept in.
Planar(m) == Times(m, HAVERSINE_R)

lonToMeters(lon) == IF IsNaN(lon) THEN NaN ELSE lon * EARTH_RADIUS

\* Math.log(Math.tan(Math.PI / 4)) is -1.1e-16 in IEEE doubles, so latitude
\* 0 projects to a planar y just below zero.  Beyond a pole the tangent is
\* negative and its logarithm is NaN; at the south pole it is 0 and the
\* logarithm is -Infinity.
latToMeters(lat) ==
  IF IsNaN(lat) \/ lat > POLE \/ lat <= -POLE THEN NaN
  ELSE IF lat = 0 THEN -1
  ELSE lat * EARTH_RADIUS

\* x / EARTH_RADIUS, by its numerator.
metersToLon(x) == IF IsNaN(x) THEN NaN ELSE x

\* The inverse Mercator of y, which near the equator is y / EARTH_RADIUS, by
\* its numerator.
metersToLat(y) == IF IsNaN(y) THEN NaN ELSE y

TruncDiv(x, gridSizeMeters) ==
  IF IsNaN(x) THEN NaN
  ELSE IF x < 0 THEN -((-x) \div (HAVERSINE_R * gridSizeMeters))
  ELSE x \div (HAVERSINE_R * gridSizeMeters)

\* Math.floor(x / gridSizeMeters)
FloorDiv(x, gridSizeMeters) ==
  IF IsNaN(x) THEN NaN ELSE x \div (HAVERSINE_R * gridSizeMeters)

\* (a + b) / 2 of two planar values
Mid(a, b) == IF IsNaN(a) \/ IsNaN(b) THEN NaN ELSE a + (b - a) \div 2

LatLng(latitude, longitude) == [latitude |-> latitude, longitude |-> longitude]

CornersOutOfOrder(minX, maxX, minY, maxY) ==
  << LatLng(metersToLat(minY), metersToLon(minX)),
     LatLng(metersToLat(maxY), metersToLon(minX)),
     LatLng(metersToLat(maxY), metersToLon(maxX)),
     LatLng(metersToLat(minY), metersToLon(maxX)) >>

\* `corners` of buildSquareFromIndices
Corners(minX, maxX, minY, maxY) ==
  << LatLng(metersToLat(minY), metersToLon(minX)),
     LatLng(metersToLat(minY), metersToLon(maxX)),
     LatLng(metersToLat(maxY), metersToLon(maxX)),
     LatLng(metersToLat(maxY), metersToLon(minX)) >>

\* A GridSquare is kept as its id and the indices printed into it; its
\* corners and centroid, which buildSquareFromIndices computes from the
\* indices alone, are computed where they are read.
buildSquareFromIndices(gridX, gridY, gridSizeMeters) ==
  [ id |-> Str(gridX) \o "_" \o Str(gridY), gridX |-> gridX, gridY |-> gridY ]

\* `square.corners`
corners(square) ==
  LET gridX == square.gridX
      gridY == square.gridY
  IN  Corners(Planar(Times(gridX, GRID_SIZE_METERS)),
              Planar(Times(IF IsNaN(gridX) THEN NaN ELSE gridX + 1,
                           GRID_SIZE_METERS)),
              Planar(Times(gridY, GRID_SIZE_METERS)),
              Planar(Times(IF IsNaN(gridY) THEN NaN ELSE gridY + 1,
                           GRID_SIZE_METERS)))

\* `square.centroid`
centroid(square) ==
  LET minX == Planar(Times(square.gridX, GRID_SIZE_METERS))
      maxX == Planar(Times(IF IsNaN(square.gridX) THEN NaN
                           ELSE square.gridX + 1, GRID_SIZE_METERS))
      minY == Planar(Times(square.gridY, GRID_SIZE_METERS))
      maxY == Planar(Times(IF IsNaN(square.gridY) THEN NaN
                           ELSE square.gridY + 1, GRID_SIZE_METERS))
  IN  LatLng(metersToLat(Mid(minY, maxY)), metersToLon(Mid(minX, maxX)))

latLngToGridSquare(latitude, longitude) ==
  LET x == lonToMeters(longitude)
      y == latToMeters(latitude)
      gridX == FloorDiv(x, GRID_SIZE_METERS)
      gridY == FloorDiv(y, GRID_SIZE_METERS)
  IN  buildSquareFromIndices(gridX, gridY, GRID_SIZE_METERS)

gridIndicesToSquare(gridX, gridY) ==
  buildSquareFromIndices(gridX, gridY, GRID_SIZE_METERS)

gridSquareToPolygon(square) == LET c == corners(square) IN Append(c, c[1])

\* ------------------------------------------- the Map screen's neighbours
\* The numbers an id can be read as: grid indices within reach, and NaN.
IndexReadings == ((-(MaxTile + 4))..(MaxTile + 4)) \cup {NaN}

\* The ways `id.split("_").map(Number)` can read an id.
SplitReadings(id) ==
  { pair \in IndexReadings \X IndexReadings :
      Str(pair[1]) \o "_" \o Str(pair[2]) = id }

\* `square.id.split("_").map(Number)`
splitNumber(id) == CHOOSE pair \in SplitReadings(id) : TRUE

SkipsNothing(dx, dy) == FALSE

\* `if (dx === 0 && dy === 0) continue`
SkipsCentre(dx, dy) == dx = 0 /\ dy = 0

\* The (dx, dy) of the two nested loops, in their order.
Offsets ==
  << << -1, -1 >>, << -1, 0 >>, << -1, 1 >>,
     << 0, -1 >>, << 0, 0 >>, << 0, 1 >>,
     << 1, -1 >>, << 1, 0 >>, << 1, 1 >> >>

\* The neighbour preview the location callback of the Map screen computes
\* from the square of the position.
neighborSquares(square) ==
  LET index == splitNumber(square.id)
      kept == SelectSeq(Offsets, LAMBDA o : ~SkipsCentre(o[1], o[2]))
  IN  IF ~IsNaN(index[1]) /\ ~IsNaN(index[2])
      THEN [ i \in DOMAIN kept |->
               gridIndicesToSquare(index[1] + kept[i][1],
                                   index[2] + kept[i][2]) ]
      ELSE << >>

\* ------------------------------------------------------------- distance
calculateDistanceMeters(from, to) ==
  IF IsNaN(from.latitude) \/ IsNaN(from.longitude)
       \/ IsNaN(to.latitude) \/ IsNaN(to.longitude)
  THEN NaN
  ELSE Abs(to.longitude - from.longitude)

\* "Filter GPS jumps": the delta that handlePositionUpdate keeps.
FilterNoStrict(dist) ==
  IF ~IsNaN(dist) /\ dist > 0 /\ dist <= JUMP_THRESHOLD_M THEN dist ELSE 0

FilterKeepAll(dist) ==
  IF ~IsNaN(dist) /\ dist > 0 THEN dist ELSE 0

FilterJump(dist) ==
  IF ~IsNaN(dist) /\ dist > 0 /\ dist < JUMP_THRESHOLD_M THEN dist ELSE 0

\* ------------------------------------------------- the Map of the ledger
MapKeys(m) == { m[i].id : i \in DOMAIN m }

MapHas(m, k) == k \in MapKeys(m)

MapIndex(m, k) == CHOOSE i \in DOMAIN m : m[i].id = k

MapGet(m, k) == m[MapIndex(m, k)]

MapSet(m, k, v) ==
  IF MapHas(m, k) THEN [m EXCEPT ![MapIndex(m, k)] = v] ELSE Append(m, v)

\* --------------------------------------------------------------- states
\* ev: op is the handler, pos its position argument, raw the Haversine delta
\* it computed (NaN when it computed none), first whether it folded a sample
\* into an empty Map, alert the alert it raised.
Event(op, pos, raw, first, shown) ==
  [op |-> op, pos |-> pos, raw |-> raw, first |-> first, alert |-> shown]

NoEvent == Event("other", << >>, NaN, FALSE, "none")

SessionInit ==
  /\ mounted = TRUE
  /\ isRunningRef = FALSE
  /\ isRunning = FALSE
  /\ lastPositionRef = << >>
  /\ lastUpdateTimeRef = 0
  /\ capturedSquaresRef = << >>
  /\ initialPositionSetRef = FALSE
  /\ currentPosition = << >>
  /\ initialPosition = << >>
  /\ elapsedTime = 0
  /\ totalDistance = 0
  /\ capturedSquaresDisplay = << >>
  /\ isSubmitting = FALSE
  /\ clock = T0
  /\ pendingDialogs = 0
  /\ successAlert = FALSE
  /\ inflight = << >>
  /\ runId = 0
  /\ aborted = {}
  /\ nSamples = 0
  /\ ev = NoEvent

\* The grid functions have not been applied.
NoResult == [ fn |-> "none", value |-> << >> ]

GridIdle ==
  /\ arg = << >>
  /\ result = << >>

\* The Lambda handlers, the transactions on the chain and the user.
Handlers == { "platformtouser", "usertoplatform", "receiveusdc" }

Invocations == 1..MaxInvocations

\* The transactions on the chain by signature, each with the USDC it
\* transfers to the user's wallet; any other signature is not found.
Chain == [ sigA |-> 1, sigB |-> MaxAmount, sigForeign |-> 0 ]

Signatures == DOMAIN Chain \cup { "sigUnknown" }

\* The requests: a well-formed one, one without the access_token header
\* and one whose body is not JSON.
Events == { "ok", "noToken", "badJson" }

IdleInvocation ==
  [ handler |-> "none", pc |-> "idle", amount |-> 0, sig |-> "",
    previousBalance |-> 0, newBalance |-> 0, txSig |-> "",
    statusCode |-> 0 ]

AtomicAdd(current, inv) == current + (inv.newBalance - inv.previousBalance)

\* The value AdminUpdateUserAttributes stores: newBalance.toString().
WrittenBalance(current, inv) == inv.newBalance

LambdaInit ==
  /\ coinBalance = InitialBalance
  /\ solanaWallet \in BOOLEAN
  /\ transferred = 0
  /\ lam = [ i \in Invocations |-> IdleInvocation ]

\* No handler is deployed.
LambdaIdle ==
  /\ coinBalance = 0
  /\ solanaWallet = FALSE
  /\ transferred = 0
  /\ lam = << >>

\* useTerritories as its useState / useRef initial values leave it, before
\* the first location.
TerritoriesInit ==
  /\ coords = << >>
  /\ territories = << >>
  /\ loading = FALSE
  /\ error = ""
  /\ lastQueryRef = << >>
  /\ active = 0
  /\ requests = << >>
  /\ nCoords = 0
  /\ nRefresh = 0

\* No component tracks the location.
TrackIdle ==
  /\ component = "none"
  /\ tracking = FALSE
  /\ starts = << >>

HookInit ==
  /\ TerritoriesInit
  /\ TrackIdle

Init ==
  /\ SessionInit
  /\ GridIdle
  /\ LambdaIdle
  /\ HookInit

LambdaStart ==
  /\ SessionInit
  /\ GridIdle
  /\ HookInit
  /\ LambdaInit

\* What is left of the component's state once the screen is gone, and what a
\* new mount starts from (the useRef / useState initial values).
FreshComponent ==
  /\ isRunningRef' = FALSE
  /\ isRunning' = FALSE
  /\ lastPositionRef' = << >>
  /\ lastUpdateTimeRef' = 0
  /\ capturedSquaresRef' = << >>
  /\ initialPositionSetRef' = FALSE
  /\ currentPosition' = << >>
  /\ initialPosition' = << >>
  /\ elapsedTime' = 0
  /\ totalDistance' = 0
  /\ capturedSquaresDisplay' = << >>
  /\ isSubmitting' = FALSE

\* One second passes: Date.now() advances by 1000 and the one-second interval
\* of the timer effect, which runs while isRunning, fires once.
Tick ==
  /\ UNCHANGED << gridVars, lambdaVars, hookVars >>
  /\ clock < T0 + MaxClockTicks * TIMER_INTERVAL_MS
  /\ clock' = clock + TIMER_INTERVAL_MS
  /\ elapsedTime' = IF mounted /\ isRunning THEN elapsedTime + 1 ELSE elapsedTime
  /\ ev' = NoEvent
  /\ UNCHANGED << mounted, isRunningRef, isRunning, lastPositionRef,
                  lastUpdateTimeRef, capturedSquaresRef, initialPositionSetRef,
                  currentPosition, initialPosition, totalDistance,
                  capturedSquaresDisplay, isSubmitting, pendingDialogs,
                  successAlert, inflight, runId, aborted, nSamples >>

\* The record handlePositionUpdate writes back for `square`.
FoldAssign(m, square, dist, timeDelta, now, run) ==
  LET currentData ==
        IF MapHas(m, square.id)
        THEN MapGet(m, square.id)
        ELSE [ id |-> square.id, square |-> square, distanceMeters |-> 0,
               durationSeconds |-> 0, lastEnterTime |-> now, run |-> run ]
  IN  [ currentData EXCEPT !.distanceMeters = dist,
                           !.durationSeconds = timeDelta,
                           !.lastEnterTime = now ]

\* The record as a suspension after the first assignment would leave it.
FoldSuspended(m, square, dist, timeDelta, now, run) ==
  LET currentData ==
        IF MapHas(m, square.id)
        THEN MapGet(m, square.id)
        ELSE [ id |-> square.id, square |-> square, distanceMeters |-> 0,
               durationSeconds |-> 0, lastEnterTime |-> now, run |-> run ]
  IN  [ currentData EXCEPT !.distanceMeters = @ + dist ]

FoldSample(m, square, dist, timeDelta, now, run) ==
  LET currentData ==
        IF MapHas(m, square.id)
        THEN MapGet(m, square.id)
        ELSE [ id |-> square.id, square |-> square, distanceMeters |-> 0,
               durationSeconds |-> 0, lastEnterTime |-> now, run |-> run ]
  IN  [ currentData EXCEPT !.distanceMeters = @ + dist,
                           !.durationSeconds = @ + timeDelta,
                           !.lastEnterTime = now ]

\* `if (isRunningRef.current)`: whether handlePositionUpdate folds the sample.
FoldsAlways(running) == TRUE

Folds(running) == running

SetDistance(prev, dist) == dist

\* `setTotalDistance((prev) => prev + dist)`; a rejected delta is 0 here.
AddDistance(prev, dist) == prev + dist

DisplayLast(m) ==
  IF m = << >> THEN << >> ELSE << m[Len(m)].square >>

\* `Array.from(capturedSquaresRef.current.values()).map((d) => d.square)`
DisplaySquares(m) == [ i \in DOMAIN m |-> m[i].square ]

handlePositionUpdate(position) ==
  /\ UNCHANGED << gridVars, lambdaVars, hookVars >>
  /\ mounted
  /\ initialPositionSetRef => nSamples < MaxSamples
  /\ nSamples' = IF initialPositionSetRef THEN nSamples + 1 ELSE nSamples
  /\ currentPosition' = << position >>
  /\ initialPositionSetRef' = TRUE
  /\ initialPosition' =
       IF ~initialPositionSetRef THEN << position >> ELSE initialPosition
  /\ IF Folds(isRunningRef)
     THEN LET now == clock
              dist == IF lastPositionRef # << >>
                      THEN FilterJump(
                             calculateDistanceMeters(lastPositionRef[1], position))
                      ELSE 0
              timeDelta == IF lastUpdateTimeRef > 0
                           THEN now - lastUpdateTimeRef
                           ELSE 0
              square == latLngToGridSquare(position.latitude, position.longitude)
          IN  /\ totalDistance' = AddDistance(totalDistance, dist)
              /\ capturedSquaresRef' =
                   MapSet(capturedSquaresRef, square.id,
                          FoldSample(capturedSquaresRef, square, dist,
                                     timeDelta, now, runId))
              /\ capturedSquaresDisplay' = DisplaySquares(capturedSquaresRef')
              /\ lastPositionRef' = << position >>
              /\ lastUpdateTimeRef' = now
     ELSE UNCHANGED << totalDistance, capturedSquaresRef,
                       capturedSquaresDisplay, lastPositionRef,
                       lastUpdateTimeRef >>
  /\ ev' = Event("sample", << position >>,
                IF Folds(isRunningRef) /\ lastPositionRef # << >>
                THEN calculateDistanceMeters(lastPositionRef[1], position)
                ELSE NaN,
                Folds(isRunningRef) /\ capturedSquaresRef = << >>, "none")
  /\ UNCHANGED << mounted, isRunningRef, isRunning, elapsedTime, isSubmitting,
                  clock, pendingDialogs, successAlert, inflight, runId,
                  aborted >>

\* `lastPositionRef.current = currentPosition` of handleStartRun.
StartFromNowhere(current) == << >>

StartPosition(current) == current

\* What handleStartRun leaves in the Map.
KeepLedger(m) == m

ClearLedger(m) == << >>

StartTimeUnset(now) == 0

\* `lastUpdateTimeRef.current = Date.now()` of handleStartRun.
StartTime(now) == now

handleStartRun ==
  /\ UNCHANGED << gridVars, lambdaVars, hookVars >>
  /\ mounted
  /\ ~isRunning                      \* the Start Run button is rendered
  /\ initialPosition # << >>         \* past the "Acquiring location..." view
  /\ pendingDialogs = 0              \* no alert covers the button
  /\ ~successAlert
  /\ runId < MaxRuns
  /\ isRunning' = TRUE
  /\ isRunningRef' = TRUE
  /\ elapsedTime' = 0
  /\ totalDistance' = 0
  /\ capturedSquaresRef' = ClearLedger(capturedSquaresRef)
  /\ capturedSquaresDisplay' = << >>
  /\ lastPositionRef' = StartPosition(currentPosition)
  /\ lastUpdateTimeRef' = StartTime(clock)
  /\ runId' = runId + 1
  /\ ev' = Event("start", << >>, NaN, FALSE, "none")
  /\ UNCHANGED << mounted, initialPositionSetRef, currentPosition,
                  initialPosition, isSubmitting, clock, pendingDialogs,
                  successAlert, inflight, aborted, nSamples >>

\* Stop & Claim: opens the "Finish Run?" alert.  A second tap can land before
\* the alert covers the button.
handleStopRun ==
  /\ UNCHANGED << gridVars, lambdaVars, hookVars >>
  /\ mounted
  /\ isRunning
  /\ ~isSubmitting
  /\ pendingDialogs < 2
  /\ pendingDialogs' = pendingDialogs + 1
  /\ ev' = NoEvent
  /\ UNCHANGED << mounted, isRunningRef, isRunning, lastPositionRef,
                  lastUpdateTimeRef, capturedSquaresRef, initialPositionSetRef,
                  currentPosition, initialPosition, elapsedTime, totalDistance,
                  capturedSquaresDisplay, isSubmitting, clock, successAlert,
                  inflight, runId, aborted, nSamples >>

\* "Cancel" in the "Finish Run?" alert.
DialogCancel ==
  /\ UNCHANGED << gridVars, lambdaVars, hookVars >>
  /\ pendingDialogs > 0
  /\ pendingDialogs' = pendingDialogs - 1
  /\ ev' = NoEvent
  /\ UNCHANGED << mounted, isRunningRef, isRunning, lastPositionRef,
                  lastUpdateTimeRef, capturedSquaresRef, initialPositionSetRef,
                  currentPosition, initialPosition, elapsedTime, totalDistance,
                  capturedSquaresDisplay, isSubmitting, clock, successAlert,
                  inflight, runId, aborted, nSamples >>

Pad2(n) == IF n < 10 THEN "0" \o ToString(n) ELSE ToString(n)

\* What the template prints when the division is not guarded: x / 0 is
\* Infinity, 0 / 0 is NaN, and Infinity % 60 is NaN.
paceStrUnguarded(data) ==
  IF data.distanceMeters > 0
  THEN LET paceSecondsPerKm == data.durationSeconds \div data.distanceMeters
           paceMin == paceSecondsPerKm \div 60
           paceSec == paceSecondsPerKm % 60
       IN  ToString(paceMin) \o "." \o Pad2(paceSec)
  ELSE IF data.durationSeconds > 0 THEN "Infinity.NaN" ELSE "NaN.NaN"

\* paceSecondsPerKm = durationSeconds / (distanceMeters / 1000), which is
\* (milliseconds / metres) in the units kept here.
paceStr(data) ==
  IF data.distanceMeters > 0
  THEN LET paceSecondsPerKm == data.durationSeconds \div data.distanceMeters
           paceMin == paceSecondsPerKm \div 60
           paceSec == paceSecondsPerKm % 60
       IN  ToString(paceMin) \o "." \o Pad2(paceSec)
  ELSE "0.00"

\* The decimal numbers with two decimals, up to MaxPaceMinutes, that print as
\* the string.
DecimalReadings(str) ==
  { pair \in (0..MaxPaceMinutes) \X (0..99) :
      ToString(pair[1]) \o "." \o Pad2(pair[2]) = str }

\* Number.parseFloat(record.average_pace) of mapTerritoryRecord, in
\* hundredths.
parseFloat(str) ==
  IF DecimalReadings(str) = {} THEN NaN
  ELSE LET pair == CHOOSE r \in DecimalReadings(str) : TRUE
       IN  pair[1] * 100 + pair[2]

\* Math.max and Math.min of two numbers, and of a list.
Max2(a, b) == IF IsNaN(a) \/ IsNaN(b) THEN NaN ELSE IF a < b THEN b ELSE a

Min2(a, b) == IF IsNaN(a) \/ IsNaN(b) THEN NaN ELSE IF a < b THEN a ELSE b

\* Math.max(...values) and Math.min(...values) of the five numbers of a
\* polygon.
MathMax(values) ==
  Max2(values[1], Max2(values[2], Max2(values[3], Max2(values[4], values[5]))))

MathMin(values) ==
  Min2(values[1], Min2(values[2], Min2(values[3], Min2(values[4], values[5]))))

\* The four numbers of the box of a polygon.
Box(polygon) ==
  LET lats == [ i \in DOMAIN polygon |-> polygon[i].latitude ]
      lngs == [ i \in DOMAIN polygon |-> polygon[i].longitude ]
  IN  [ maxLat |-> MathMax(lats), minLat |-> MathMin(lats),
        maxLng |-> MathMax(lngs), minLng |-> MathMin(lngs) ]

\* The eight corner fields of a payload record, from the box of its square.
cornerFields(square) ==
  LET box == Box(gridSquareToPolygon(square))
  IN  [ left_top_corner_lat |-> box.maxLat,
        left_top_corner_lng |-> box.minLng,
        left_bottom_corner_lat |-> box.minLat,
        left_bottom_corner_lng |-> box.minLng,
        right_top_corner_lat |-> box.maxLat,
        right_top_corner_lng |-> box.maxLng,
        right_bottom_corner_lat |-> box.minLat,
        right_bottom_corner_lng |-> box.maxLng ]

\* One payload record per entry of the Map; `square` stands for the min/max
\* corner box derived from the tile's corners, which cornerFields spells out.
\* The random colour is left out.
territoriesPayload(m) ==
  [ i \in DOMAIN m |->
      [ average_pace |-> paceStr(m[i]), square |-> m[i].square,
        run |-> m[i].run ] ]

ShouldPostAlways(payload) == TRUE

\* `territoriesPayload.length === 0`
ShouldPost(payload) == Len(payload) # 0

\* "Finish" in the "Finish Run?" alert: submitRun up to its await.  The body
\* of a request is territoriesPayload of the Map at this moment; the request in
\* flight is kept as the run it finishes and its number of territories.
\* `orphan` marks a request whose component has since been unmounted.
submitRun ==
  /\ UNCHANGED << gridVars, lambdaVars, hookVars >>
  /\ pendingDialogs > 0
  /\ pendingDialogs' = pendingDialogs - 1
  /\ isRunning' = FALSE
  /\ isRunningRef' = FALSE
  /\ LET payload == territoriesPayload(capturedSquaresRef)
         request == [ run |-> runId, territories |-> Len(payload),
                      orphan |-> FALSE ]
     IN  IF ShouldPost(payload)
         THEN /\ isSubmitting' = TRUE
              /\ inflight' = Append(inflight, request)
              /\ ev' = Event("submit", << >>, NaN, FALSE, "none")
         ELSE /\ isSubmitting' = FALSE
              /\ inflight' = inflight
              /\ ev' = Event("submit", << >>, NaN, FALSE, "No Territory")
  /\ UNCHANGED << mounted, lastPositionRef, lastUpdateTimeRef,
                  capturedSquaresRef, initialPositionSetRef, currentPosition,
                  initialPosition, elapsedTime, totalDistance,
                  capturedSquaresDisplay, clock, successAlert, runId, aborted,
                  nSamples >>

RemoveAt(s, i) == [ j \in 1..(Len(s) - 1) |-> IF j < i THEN s[j] ELSE s[j + 1] ]

\* The response of a POST: the rest of submitRun (try / catch / finally).
\* Setting state of a component that is gone has no effect.
PostSettles(i) ==
  /\ i \in DOMAIN inflight
  /\ inflight' = RemoveAt(inflight, i)
  /\ isSubmitting' = IF inflight[i].orphan THEN isSubmitting ELSE FALSE
  /\ UNCHANGED << mounted, isRunningRef, isRunning, lastPositionRef,
                  lastUpdateTimeRef, capturedSquaresRef, initialPositionSetRef,
                  currentPosition, initialPosition, elapsedTime, totalDistance,
                  capturedSquaresDisplay, clock, pendingDialogs, runId,
                  aborted, nSamples >>

PostSucceeds ==
  /\ UNCHANGED << gridVars, lambdaVars, hookVars >>
  /\ \E i \in DOMAIN inflight : PostSettles(i)
  /\ successAlert' = TRUE
  /\ ev' = Event("response", << >>, NaN, FALSE, "Success")

PostFails ==
  /\ UNCHANGED << gridVars, lambdaVars, hookVars >>
  /\ \E i \in DOMAIN inflight : PostSettles(i)
  /\ successAlert' = successAlert
  /\ ev' = Event("response", << >>, NaN, FALSE, "Error")

\* What is left of the Map when the screen is left.
KeepOnLeave(m) == m

DiscardOnLeave(m) == << >>

\* router.back(): the screen is left and its component state is gone.
Leave ==
  /\ mounted' = FALSE
  /\ aborted' = IF isRunningRef THEN aborted \cup {runId} ELSE aborted
  /\ inflight' = [ i \in DOMAIN inflight |-> [inflight[i] EXCEPT !.orphan = TRUE] ]
  /\ isRunningRef' = FALSE
  /\ isRunning' = FALSE
  /\ lastPositionRef' = << >>
  /\ lastUpdateTimeRef' = 0
  /\ capturedSquaresRef' = DiscardOnLeave(capturedSquaresRef)
  /\ initialPositionSetRef' = FALSE
  /\ currentPosition' = << >>
  /\ initialPosition' = << >>
  /\ elapsedTime' = 0
  /\ totalDistance' = 0
  /\ capturedSquaresDisplay' = << >>
  /\ isSubmitting' = FALSE
  /\ UNCHANGED << clock, pendingDialogs, runId, nSamples >>

\* The back arrow of the overlay.
Back ==
  /\ UNCHANGED << gridVars, lambdaVars, hookVars >>
  /\ mounted
  /\ initialPosition # << >>
  /\ pendingDialogs = 0
  /\ ~successAlert
  /\ Leave
  /\ successAlert' = successAlert
  /\ ev' = Event("back", << >>, NaN, FALSE, "none")

\* "OK" in the "Success" alert.
SuccessOk ==
  /\ UNCHANGED << gridVars, lambdaVars, hookVars >>
  /\ successAlert
  /\ pendingDialogs = 0
  /\ successAlert' = FALSE
  /\ ev' = Event("back", << >>, NaN, FALSE, "none")
  /\ IF mounted
     THEN Leave
     ELSE UNCHANGED << mounted, isRunningRef, isRunning, lastPositionRef,
                       lastUpdateTimeRef, capturedSquaresRef,
                       initialPositionSetRef, currentPosition, initialPosition,
                       elapsedTime, totalDistance, capturedSquaresDisplay,
                       isSubmitting, clock, pendingDialogs, inflight, runId,
                       aborted, nSamples >>

\* The screen is opened again: a new component instance.
Mount ==
  /\ UNCHANGED << gridVars, lambdaVars, hookVars >>
  /\ ~mounted
  /\ ~successAlert
  /\ mounted' = TRUE
  /\ FreshComponent
  /\ ev' = NoEvent
  /\ UNCHANGED << clock, pendingDialogs, successAlert, inflight, runId,
                  aborted, nSamples >>

Next ==
  \/ Tick
  \/ \E position \in SamplePoints : handlePositionUpdate(position)
  \/ handleStartRun
  \/ handleStopRun
  \/ DialogCancel
  \/ submitRun
  \/ PostSucceeds
  \/ PostFails
  \/ Back
  \/ SuccessOk
  \/ Mount

Spec == Init /\ [][Next]_vars

\* ------------------------------------------ the grid functions on their own
GridLatitudes == { -60, 0, 60, 160, 2 * POLE, NaN }

GridLongitudes == { -160, -60, 0, 60, 160, NaN }

GridPoints ==
  { LatLng(lat, lon) : lat \in GridLatitudes, lon \in GridLongitudes }

\* Tile indices: the negative ones are where floor and truncation differ.
GridTiles == ((-(MaxTile + 2))..MaxTile) \X ((-(MaxTile + 2))..MaxTile)

\* Ledger records as far as the pace reads them: metres and milliseconds.
PaceRecords ==
  [ distanceMeters : { 0, 500, 1000, 2000 },
    durationSeconds : { 0, 1000, 59000, 330000, 600000 } ]

GridInputs ==
  [ kind : {"point"}, value : GridPoints ]
    \cup [ kind : {"tile"}, value : GridTiles ]
    \cup [ kind : {"record"}, value : PaceRecords ]

GridInit ==
  /\ SessionInit
  /\ arg \in GridInputs
  /\ result = NoResult
  /\ LambdaIdle
  /\ HookInit

Applied(fn, value) ==
  /\ result' = [ fn |-> fn, value |-> value ]
  /\ UNCHANGED << arg, vars, lambdaVars, hookVars >>

Locate ==
  /\ arg.kind = "point"
  /\ Applied("latLngToGridSquare",
             latLngToGridSquare(arg.value.latitude, arg.value.longitude))

\* The location callback of the Map screen: currentSquare and neighborSquares.
Preview ==
  /\ arg.kind = "point"
  /\ LET square == latLngToGridSquare(arg.value.latitude, arg.value.longitude)
     IN  Applied("neighborSquares",
                 [ currentSquare |-> square,
                   neighborSquares |-> neighborSquares(square) ])

Rebuild ==
  /\ arg.kind = "tile"
  /\ Applied("gridIndicesToSquare",
             gridIndicesToSquare(arg.value[1], arg.value[2]))

Derive ==
  /\ arg.kind = "record"
  /\ Applied("paceStr", paceStr(arg.value))

GridNext ==
  \/ Locate
  \/ Preview
  \/ Rebuild
  \/ Derive

GridSpec == GridInit /\ [][GridNext]_allVars

\* ------------------------------------------------- the Lambda invocations
\* The step of invocation i: its locals change, the others' do not, and
\* no handler changes the wallet attributes.
Step(i, inv) ==
  /\ lam' = [lam EXCEPT ![i] = inv]
  /\ UNCHANGED << vars, gridVars, solanaWallet, hookVars >>

Returns(inv, statusCode) ==
  [inv EXCEPT !.pc = "done", !.statusCode = statusCode]

\* The handler starts: the header is read, the body is parsed and
\* validated.  Invocations are numbered in the order they start.
Invoke(i, handler, event, amount, sig) ==
  /\ lam[i].pc = "idle"
  /\ \A j \in 1..(i - 1) : lam[j].pc # "idle"
  /\ IF handler = "receiveusdc" THEN amount = 0 ELSE sig = ""
  /\ LET inv == [lam[i] EXCEPT !.handler = handler, !.amount = amount,
                               !.sig = sig]
         invalid == IF handler = "receiveusdc" THEN sig = ""
                                               ELSE amount <= 0
     IN  Step(i, CASE event = "noToken" -> Returns(inv, 401)
                   [] event = "badJson" -> Returns(inv, 400)
                   [] invalid -> Returns(inv, 400)
                   [] OTHER -> [inv EXCEPT !.pc = "getUser"])
  /\ UNCHANGED << coinBalance, transferred >>

InsufficientNever(previousBalance, amount) == FALSE

\* `if (previousBalance < amount)` of the user-to-platform handler.
Insufficient(previousBalance, amount) == previousBalance < amount

\* `await cognitoClient.send(new GetUserCommand(...))` and the synchronous
\* code up to the next await.
GetUser(i) ==
  /\ lam[i].pc = "getUser"
  /\ LET inv == [lam[i] EXCEPT !.previousBalance = coinBalance]
     IN  CASE ~solanaWallet ->
                Step(i, Returns(lam[i], 404))
           [] solanaWallet /\ lam[i].handler = "platformtouser" ->
                Step(i, [inv EXCEPT !.newBalance = coinBalance + lam[i].amount,
                                    !.pc = "transfer"])
           [] solanaWallet /\ lam[i].handler = "usertoplatform" ->
                Step(i, IF Insufficient(coinBalance, lam[i].amount)
                        THEN Returns(inv, 400)
                        ELSE [inv EXCEPT
                                !.newBalance = coinBalance - lam[i].amount,
                                !.pc = "transfer"])
           [] OTHER ->
                Step(i, [inv EXCEPT !.pc = "getParsedTransaction"])
  /\ UNCHANGED << coinBalance, transferred >>

\* GetUserCommand rejects the token: the invocation ends with an error.
GetUserThrows(i) ==
  /\ lam[i].pc = "getUser"
  /\ Step(i, Returns(lam[i], 500))
  /\ UNCHANGED << coinBalance, transferred >>

\* The secret, the token accounts and `await transfer(...)` return.
Transfer(i) ==
  /\ lam[i].pc = "transfer"
  /\ transferred' = IF lam[i].handler = "platformtouser"
                    THEN transferred + lam[i].amount
                    ELSE transferred - lam[i].amount
  /\ Step(i, [lam[i] EXCEPT !.txSig = "tx", !.pc = "update"])
  /\ UNCHANGED coinBalance

\* The invocation ends with an error although the balance was written.
TransferThrowsAfterWrite(i) ==
  /\ lam[i].pc = "transfer"
  /\ coinBalance' = lam[i].newBalance
  /\ Step(i, Returns(lam[i], 500))
  /\ UNCHANGED transferred

\* One of them throws: the invocation ends with an error.
TransferThrows(i) ==
  /\ lam[i].pc = "transfer"
  /\ Step(i, Returns(lam[i], 500))
  /\ UNCHANGED << coinBalance, transferred >>

\* The transaction was credited by an invocation that returned already.
ReceivedOnce(sig) ==
  IF \E j \in DOMAIN lam : lam[j].sig = sig /\ lam[j].statusCode = 200
  THEN 0
  ELSE IF sig \in DOMAIN Chain THEN Chain[sig] ELSE 0

\* The sum of the USDC transfers to the user's wallet in the transaction.
ReceivedAmount(sig) == IF sig \in DOMAIN Chain THEN Chain[sig] ELSE 0

\* `await connection.getParsedTransaction(...)` and the sum of the USDC
\* transfers to the user's wallet in it.
GetParsedTransaction(i) ==
  /\ lam[i].pc = "getParsedTransaction"
  /\ LET receivedAmount == ReceivedAmount(lam[i].sig)
     IN  Step(i, IF lam[i].sig \notin DOMAIN Chain \/ receivedAmount <= 0
                 THEN Returns(lam[i], 400)
                 ELSE [lam[i] EXCEPT
                         !.newBalance = lam[i].previousBalance + receivedAmount,
                         !.pc = "update"])
  /\ UNCHANGED << coinBalance, transferred >>

\* `await cognitoClient.send(new AdminUpdateUserAttributesCommand(...))`
AdminUpdateUserAttributes(i) ==
  /\ lam[i].pc = "update"
  /\ coinBalance' = WrittenBalance(coinBalance, lam[i])
  /\ Step(i, Returns(lam[i], 200))
  /\ UNCHANGED transferred

LambdaNext ==
  \/ \E i \in Invocations, handler \in Handlers, event \in Events,
        amount \in 0..MaxAmount, sig \in Signatures \cup {""} :
       Invoke(i, handler, event, amount, sig)
  \/ \E i \in Invocations : GetUser(i)
  \/ \E i \in Invocations : GetUserThrows(i)
  \/ \E i \in Invocations : Transfer(i)
  \/ \E i \in Invocations : TransferThrows(i)
  \/ \E i \in Invocations : GetParsedTransaction(i)
  \/ \E i \in Invocations : AdminUpdateUserAttributes(i)

LambdaSpec == LambdaStart /\ [][LambdaNext]_allVars

\* ------------------------------------------------------- useTerritories
\* Coordinates in millionths of a degree: two fixes that round to the same
\* five decimals and one that rounds to the next.
HookPoints ==
  { [latitude |-> 0, longitude |-> 0],
    [latitude |-> 0, longitude |-> 4],
    [latitude |-> 0, longitude |-> 6] }

\* Number.prototype.toFixed(5): the nearest multiple of 0.00001, as its
\* number of hundred-thousandths.
toFixed5(x) == IF x >= 0 THEN (x + 5) \div 10 ELSE -((5 - x) \div 10)

\* `${position.latitude.toFixed(5)}-${position.longitude.toFixed(5)}`
queryKey(position) ==
  << toFixed5(position.latitude), toFixed5(position.longitude) >>

\* `if (queryKey === lastQueryRef.current) return;`
SkipsQuery(key, last) == last = << key >>

\* fetchTerritories up to its await.  `effect` is the effect whose `active`
\* shouldUpdate reads; 0 stands for refresh's `() => true`.  shouldUpdate()
\* is true here: the effect has just run, or the call is a refresh.
fetchTerritories(effect, position) ==
  IF position = << >>
  THEN /\ territories' = << >>
       /\ UNCHANGED << loading, lastQueryRef, requests >>
  ELSE LET key == queryKey(position[1])
       IN  IF SkipsQuery(key, lastQueryRef)
           THEN UNCHANGED << territories, loading, lastQueryRef, requests >>
           ELSE /\ lastQueryRef' = << key >>
                /\ loading' = TRUE
                /\ requests' = Append(requests, [ key |-> key, effect |-> effect ])
                /\ UNCHANGED territories

\* The location callback of Map: setCurrentPosition(position) with a new
\* object, so the effect of useTerritories is cleaned up (`active = false`)
\* and runs again for the new coords.
setCurrentPosition(position) ==
  /\ nCoords < MaxCoords
  /\ nCoords' = nCoords + 1
  /\ coords' = << position >>
  /\ active' = nCoords + 1
  /\ fetchTerritories(nCoords + 1, << position >>)
  /\ UNCHANGED << error, nRefresh, trackVars, vars, gridVars, lambdaVars >>

\* refresh(): fetchTerritories(() => true, coords).
refresh ==
  /\ nRefresh < MaxRefreshes
  /\ nRefresh' = nRefresh + 1
  /\ fetchTerritories(0, coords)
  /\ UNCHANGED << coords, error, active, nCoords, trackVars, vars, gridVars,
                  lambdaVars >>

\* shouldUpdate() of a request when its response arrives.
shouldUpdate(request) == request.effect = 0 \/ request.effect = active

\* The GET resolves: the try block and the finally block.
Resolve(i) ==
  /\ i \in DOMAIN requests
  /\ requests' = RemoveAt(requests, i)
  /\ IF shouldUpdate(requests[i])
     THEN /\ territories' = << requests[i].key >>
          /\ error' = ""
          /\ loading' = FALSE
     ELSE UNCHANGED << territories, error, loading >>
  /\ UNCHANGED << coords, lastQueryRef, active, nCoords, nRefresh, trackVars,
                  vars, gridVars, lambdaVars >>

\* The GET rejects: the catch block and the finally block.
Reject(i) ==
  /\ i \in DOMAIN requests
  /\ requests' = RemoveAt(requests, i)
  /\ IF shouldUpdate(requests[i])
     THEN /\ error' = "Failed to load territories."
          /\ loading' = FALSE
     ELSE UNCHANGED << error, loading >>
  /\ UNCHANGED << coords, territories, lastQueryRef, active, nCoords,
                  nRefresh, trackVars, vars, gridVars, lambdaVars >>

Settles == \E i \in DOMAIN requests : Resolve(i) \/ Reject(i)

TerritoriesStart ==
  /\ SessionInit
  /\ GridIdle
  /\ LambdaIdle
  /\ HookInit

TerritoriesNext ==
  \/ \E position \in HookPoints : setCurrentPosition(position)
  \/ refresh
  \/ \E i \in DOMAIN requests : Resolve(i)
  \/ \E i \in DOMAIN requests : Reject(i)

TerritoriesSpec == TerritoriesStart /\ [][TerritoriesNext]_allVars

\* Every request gets its response or its failure in the end.
TerritoriesLive == TerritoriesSpec /\ WF_allVars(Settles)

\* --------------------------------------------------- location tracking
\* The components that track the location: Map through useLocationTracking
\* and TerritoryCapture through its own effect.
Components == { "Map", "TerritoryCapture" }

\* A run of the tracking effect: the position of its asynchronous start,
\* whether its cleanup has run, whether its handler has been called and
\* whether it has been called after the cleanup.
NewStart ==
  [ pc |-> "permission", cleaned |-> FALSE, delivered |-> FALSE,
    late |-> FALSE ]

\* The handler is called with a position.
Delivers(start) ==
  [ start EXCEPT !.delivered = TRUE, !.late = start.cleaned ]

\* The cleanup of the effect: `subscription?.remove?.()` with the
\* subscription the start has assigned by now, if any.
Cleanup(start) ==
  [ start EXCEPT !.cleaned = TRUE,
                 !.pc = IF start.pc = "subscribed" THEN "removed"
                                                   ELSE start.pc ]

\* The steps of the tracking leave everything else alone.
TrackStep ==
  UNCHANGED << component, coords, territories, loading, error, lastQueryRef,
               active, requests, nCoords, nRefresh, vars, gridVars,
               lambdaVars >>

\* A render of Map passes a new onLocation function: the effect of
\* useLocationTracking is cleaned up and runs again.  handlePositionUpdate
\* of TerritoryCapture is a useCallback with no dependencies and never
\* changes.
RunEffect ==
  /\ tracking
  /\ component = "Map"
  /\ Len(starts) < MaxEffects
  /\ starts' = Append([ i \in DOMAIN starts |->
                          IF i = Len(starts) THEN Cleanup(starts[i])
                                             ELSE starts[i] ],
                      NewStart)
  /\ UNCHANGED tracking
  /\ TrackStep

\* The component is unmounted: the cleanup of its last effect runs.
Unmount ==
  /\ tracking
  /\ tracking' = FALSE
  /\ starts' = [ i \in DOMAIN starts |->
                   IF i = Len(starts) THEN Cleanup(starts[i]) ELSE starts[i] ]
  /\ TrackStep

Advance(i, from, start) ==
  /\ i \in DOMAIN starts
  /\ starts[i].pc = from
  /\ starts' = [ starts EXCEPT ![i] = start ]
  /\ UNCHANGED tracking
  /\ TrackStep

\* `await Location.requestForegroundPermissionsAsync()`
PermissionGranted(i) ==
  Advance(i, "permission", [ starts[i] EXCEPT !.pc = "fix" ])

PermissionDenied(i) ==
  Advance(i, "permission", [ starts[i] EXCEPT !.pc = "denied" ])

\* `await Location.getCurrentPositionAsync(...)`, the call of the handler
\* with the fix and the call of watchPositionAsync.
InitialFix(i) ==
  Advance(i, "fix", [ Delivers(starts[i]) EXCEPT !.pc = "watch" ])

\* watchPositionAsync resolves and the subscription is assigned.
Subscribed(i) ==
  Advance(i, "watch", [ starts[i] EXCEPT !.pc = "subscribed" ])

\* The subscription delivers a position.
WatchSample(i) ==
  Advance(i, "subscribed", Delivers(starts[i]))

TrackingStart ==
  /\ SessionInit
  /\ GridIdle
  /\ LambdaIdle
  /\ TerritoriesInit
  /\ component \in Components
  /\ tracking = TRUE
  /\ starts = << NewStart >>

TrackingNext ==
  \/ RunEffect
  \/ Unmount
  \/ \E i \in DOMAIN starts : PermissionGranted(i)
  \/ \E i \in DOMAIN starts : PermissionDenied(i)
  \/ \E i \in DOMAIN starts : InitialFix(i)
  \/ \E i \in DOMAIN starts : Subscribed(i)
  \/ \E i \in DOMAIN starts : WatchSample(i)

TrackingSpec == TrackingStart /\ [][TrackingNext]_allVars




\* ------------------------------------------------------------ properties
DistOf(m, id) == IF MapHas(m, id) THEN MapGet(m, id).distanceMeters ELSE 0

DurOf(m, id) == IF MapHas(m, id) THEN MapGet(m, id).durationSeconds ELSE 0

TileOf(position) == latLngToGridSquare(position.latitude, position.longitude).id

IsFinitePosition(position) ==
  ~IsNaN(position.latitude) /\ ~IsNaN(position.longitude)

\* This step is handlePositionUpdate folding a sample into the ledger.
FoldStep == ev'.op = "sample" /\ isRunningRef

\* C1: as long as the session lives and no new run is started, every record of
\* the ledger stays in it under the same tile, and its distanceMeters and
\* durationSeconds never decrease.
C1_LedgerMonotone ==
  [][ (mounted' /\ runId' = runId) =>
        \A i \in DOMAIN capturedSquaresRef :
          /\ i \in DOMAIN capturedSquaresRef'
          /\ capturedSquaresRef'[i].id = capturedSquaresRef[i].id
          /\ capturedSquaresRef'[i].distanceMeters
               >= capturedSquaresRef[i].distanceMeters
          /\ capturedSquaresRef'[i].durationSeconds
               >= capturedSquaresRef[i].durationSeconds ]_vars

\* A running ledger of two tiles whose first record has grown in distance and
\* in duration.
C1_Witness ==
  /\ isRunningRef
  /\ Len(capturedSquaresRef) = 2
  /\ capturedSquaresRef[1].distanceMeters > 0
  /\ capturedSquaresRef[1].durationSeconds > 0
  /\ ev.op = "sample"

\* C2: a sample more than 100 m from the preceding position adds nothing to
\* its tile's distance nor to the total distance, still has the elapsed time
\* added to its tile's duration, and becomes the last position.
C2_NoiseRejected ==
  [][ (FoldStep /\ lastPositionRef # << >> /\ ~IsNaN(ev'.raw)
         /\ ev'.raw > JUMP_THRESHOLD_M) =>
        LET position == ev'.pos[1]
            id == TileOf(position)
        IN  /\ totalDistance' = totalDistance
            /\ DistOf(capturedSquaresRef', id) = DistOf(capturedSquaresRef, id)
            /\ DurOf(capturedSquaresRef', id)
                 = DurOf(capturedSquaresRef, id) + (clock - lastUpdateTimeRef)
            /\ lastPositionRef' = << position >>
            /\ lastUpdateTimeRef' = clock ]_vars

\* A 160 m jump was just folded after a second had passed: the run has
\* distance from before, the jump's tile has none.
C2_Witness ==
  /\ isRunningRef
  /\ ev.op = "sample"
  /\ ~IsNaN(ev.raw) /\ ev.raw > JUMP_THRESHOLD_M
  /\ totalDistance > 0
  /\ DistOf(capturedSquaresRef, TileOf(ev.pos[1])) = 0
  /\ DurOf(capturedSquaresRef, TileOf(ev.pos[1])) > 0

\* C3 (as claimed): a delta d with 0 < d <= 100 m, exactly 100 m included, is
\* added in full to the current tile's distanceMeters.
C3_Claimed ==
  [][ (FoldStep /\ ~IsNaN(ev'.raw) /\ ev'.raw > 0
         /\ ev'.raw <= JUMP_THRESHOLD_M) =>
        DistOf(capturedSquaresRef', TileOf(ev'.pos[1]))
          = DistOf(capturedSquaresRef, TileOf(ev'.pos[1])) + ev'.raw ]_vars

\* C3 (amended): a delta d with 0 < d < 100 m is added in full to the current
\* tile's distanceMeters; a delta of exactly 100 m, like every larger one, is
\* discarded and adds nothing.
C3_JumpThreshold ==
  [][ (FoldStep /\ ~IsNaN(ev'.raw) /\ ev'.raw > 0) =>
        DistOf(capturedSquaresRef', TileOf(ev'.pos[1]))
          = DistOf(capturedSquaresRef, TileOf(ev'.pos[1]))
            + (IF ev'.raw < JUMP_THRESHOLD_M THEN ev'.raw ELSE 0) ]_vars

\* A delta of exactly 100 m was just folded.
C3_Witness ==
  /\ isRunningRef
  /\ ev.op = "sample"
  /\ ev.raw = JUMP_THRESHOLD_M
  /\ MapHas(capturedSquaresRef, TileOf(ev.pos[1]))

\* C4 (as claimed): the first sample folded into a run's fresh ledger leaves
\* its tile record with zero distance and zero duration.
C4_Claimed ==
  [][ (FoldStep /\ capturedSquaresRef = << >>) =>
        /\ capturedSquaresRef'[1].distanceMeters = 0
        /\ capturedSquaresRef'[1].durationSeconds = 0 ]_vars

\* C4 (amended): handleStartRun makes the pre-run current position and the
\* start time the references of the run, and the first sample folded into the
\* fresh ledger creates its tile record with the delta from that position
\* (when it is above 0 and below 100 m, else 0) as distance and the time since
\* the start as duration.
C4_FirstSample ==
  /\ [](ev.op = "start" =>
          lastPositionRef = currentPosition /\ lastUpdateTimeRef = clock)
  /\ [][ (FoldStep /\ capturedSquaresRef = << >>) =>
           /\ Len(capturedSquaresRef') = 1
           /\ capturedSquaresRef'[1].id = TileOf(ev'.pos[1])
           /\ capturedSquaresRef'[1].distanceMeters =
                (IF ~IsNaN(ev'.raw) /\ ev'.raw > 0
                      /\ ev'.raw < JUMP_THRESHOLD_M
                 THEN ev'.raw ELSE 0)
           /\ capturedSquaresRef'[1].durationSeconds = clock - lastUpdateTimeRef
           /\ capturedSquaresRef'[1].lastEnterTime = clock ]_vars

\* The first sample of a run was just folded, 60 m from where Start was
\* pressed and a second after it.
C4_Witness ==
  /\ ev.op = "sample"
  /\ ev.first
  /\ Len(capturedSquaresRef) = 1
  /\ capturedSquaresRef[1].distanceMeters > 0
  /\ capturedSquaresRef[1].durationSeconds > 0

\* C5: right after handleStartRun the ledger, the displayed squares, the
\* total distance and the elapsed time are empty or zero, and every record of
\* the ledger, out of which a submission is derived, was created in the run
\* started last.
C5_FreshLedger ==
  /\ ev.op = "start" =>
       /\ capturedSquaresRef = << >>
       /\ capturedSquaresDisplay = << >>
       /\ totalDistance = 0
       /\ elapsedTime = 0
  /\ \A i \in DOMAIN capturedSquaresRef : capturedSquaresRef[i].run = runId
  /\ LET payload == territoriesPayload(capturedSquaresRef)
     IN  \A i \in DOMAIN payload : payload[i].run = runId

\* A second run was just started on the screen whose first run is still being
\* submitted with its territories.
C5_Witness ==
  /\ ev.op = "start"
  /\ runId = 2
  /\ \E i \in DOMAIN inflight :
       /\ inflight[i].run = 1
       /\ inflight[i].territories > 0
       /\ ~inflight[i].orphan

\* C6: a sample that arrives while no run is in progress leaves the ledger,
\* the total distance, the last position and the last update time unchanged.
C6_IdleSampleFrame ==
  [][ (ev'.op = "sample" /\ ~isRunningRef) =>
        UNCHANGED << capturedSquaresRef, totalDistance, lastPositionRef,
                     lastUpdateTimeRef, capturedSquaresDisplay >> ]_vars

\* After a finished run with a non-empty ledger a sample arrived at another
\* place than the run's last position.
C6_Witness ==
  /\ ev.op = "sample"
  /\ mounted
  /\ ~isRunningRef
  /\ capturedSquaresRef # << >>
  /\ lastPositionRef # ev.pos

\* C7 (as claimed): a sample with a non-finite coordinate received during a
\* run creates no ledger record and changes no record.
C7_Claimed ==
  [][ (FoldStep /\ ~IsFinitePosition(ev'.pos[1])) =>
        capturedSquaresRef' = capturedSquaresRef ]_vars

\* C8: when finish finds the ledger empty, it raises "No Territory" and not
\* the error alert, sends no request for the run, and is not submitting.
C8_EmptyRun ==
  /\ (ev.op = "submit" /\ capturedSquaresRef = << >>) =>
       /\ ev.alert = "No Territory"
       /\ ~isSubmitting
       /\ \A i \in DOMAIN inflight : inflight[i].run # runId
  /\ \A i \in DOMAIN inflight : inflight[i].territories > 0

\* A run was just finished with an empty ledger.
C8_Witness ==
  /\ ev.op = "submit"
  /\ mounted
  /\ runId > 0
  /\ capturedSquaresRef = << >>

\* C9 (as claimed): at most one submission is sent per started run.
C9_Claimed ==
  \A i, j \in DOMAIN inflight :
    inflight[i].run = inflight[j].run => i = j

\* C10: leaving the screen discards the ledger and sends nothing: once the
\* screen is left the ledger is empty and no run is active, and no request
\* in flight and no record of a ledger belongs to a run that was left while
\* active.
C10_Cancellation ==
  /\ ~mounted =>
       /\ capturedSquaresRef = << >>
       /\ capturedSquaresDisplay = << >>
       /\ ~isRunningRef
  /\ \A i \in DOMAIN inflight : inflight[i].run \notin aborted
  /\ \A i \in DOMAIN capturedSquaresRef :
       capturedSquaresRef[i].run \notin aborted

\* After a run was left while active, a later run of a new visit is being
\* submitted with its territories.
C10_Witness ==
  /\ aborted # {}
  /\ mounted
  /\ ev.op = "submit"
  /\ \E i \in DOMAIN inflight :
       /\ inflight[i].run = runId
       /\ inflight[i].territories > 0
       /\ ~inflight[i].orphan

\* -------------------------------------------------- properties of the grid
\* The grid indices of a point, as latLngToGridSquare floors them.
IndexOf(point) ==
  << FloorDiv(lonToMeters(point.longitude), GRID_SIZE_METERS),
     FloorDiv(latToMeters(point.latitude), GRID_SIZE_METERS) >>

IsFiniteIndex(index) == ~IsNaN(index[1]) /\ ~IsNaN(index[2])

\* JavaScript's <= on numbers that may be non-finite.
Leq(a, b) == ~IsNaN(a) /\ ~IsNaN(b) /\ a <= b

\* index * edge <= planar < (index + 1) * edge
InCell(planar, index) ==
  /\ ~IsNaN(planar)
  /\ ~IsNaN(index)
  /\ Planar(index * GRID_SIZE_METERS) <= planar
  /\ planar < Planar((index + 1) * GRID_SIZE_METERS)

Located == result.fn = "latLngToGridSquare"

\* C11: a ledger record whose distanceMeters is 0 gets the pace string "0.00",
\* which reads as the number 0, whatever its durationSeconds is.
C11_PaceGuard ==
  (result.fn = "paceStr" /\ arg.value.distanceMeters = 0)
    => (result.value = "0.00" /\ parseFloat(result.value) = 0)

C11_Witness ==
  /\ result.fn = "paceStr"
  /\ arg.value.distanceMeters = 0
  /\ arg.value.durationSeconds > 0
  /\ result.value = "0.00"

\* C12, as claimed: for a record with distanceMeters > 0 the submitted pace,
\* read as a number, is durationSeconds / (distanceMeters / 1000) / 60
\* minutes per kilometre up to the rounding of two decimals (one hundredth).
C12_Claimed ==
  (result.fn = "paceStr" /\ arg.value.distanceMeters > 0)
    => LET read == parseFloat(result.value)
           minutes == (arg.value.durationSeconds * 100)
                        \div (arg.value.distanceMeters * 60)
       IN  ~IsNaN(read) /\ Abs(read - minutes) <= 1

\* C13, as claimed: every record of the payload submitRun derives has the
\* min/max box of its tile as corners, with minLat <= maxLat and
\* minLng <= maxLng, and the payload has exactly one record per tile of the
\* ledger.
C13_Claimed ==
  ev.op = "submit" =>
    LET payload == territoriesPayload(capturedSquaresRef)
    IN  /\ Len(payload) = Cardinality(MapKeys(capturedSquaresRef))
        /\ \A i \in DOMAIN payload :
             LET r == cornerFields(payload[i].square)
                 box == corners(capturedSquaresRef[i].square)
                 lats == { box[k].latitude : k \in DOMAIN box }
                 lngs == { box[k].longitude : k \in DOMAIN box }
                 maxLat == r.left_top_corner_lat
                 minLat == r.left_bottom_corner_lat
                 maxLng == r.right_top_corner_lng
                 minLng == r.left_top_corner_lng
             IN  /\ r.right_top_corner_lat = maxLat
                 /\ r.right_bottom_corner_lat = minLat
                 /\ r.left_bottom_corner_lng = minLng
                 /\ r.right_bottom_corner_lng = maxLng
                 /\ \A v \in lats : Leq(minLat, v) /\ Leq(v, maxLat)
                 /\ \A v \in lngs : Leq(minLng, v) /\ Leq(v, maxLng)
                 /\ maxLat \in lats /\ minLat \in lats
                 /\ maxLng \in lngs /\ minLng \in lngs
                 /\ Leq(minLat, maxLat)
                 /\ Leq(minLng, maxLng)

C16_TileIdentity ==
  (Located /\ IsFiniteIndex(IndexOf(arg.value)))
    => /\ \A q \in GridPoints :
            (latLngToGridSquare(q.latitude, q.longitude).id = result.value.id)
              <=> (IndexOf(q) = IndexOf(arg.value))
       /\ SplitReadings(result.value.id) = { IndexOf(arg.value) }
       /\ LET index == splitNumber(result.value.id)
              square == gridIndicesToSquare(index[1], index[2])
          IN  /\ square.id = result.value.id
              /\ corners(square) = corners(result.value)
              /\ centroid(square) = centroid(result.value)

C16_Witness ==
  /\ Located
  /\ IndexOf(arg.value) = << -2, -1 >>
  /\ result.value.id = "-2_-1"
  /\ splitNumber(result.value.id) = << -2, -1 >>

\* C17: for a position whose tile has finite indices the neighbour preview is
\* eight pairwise distinct tiles, those at (gx+dx, gy+dy) for dx, dy in
\* {-1, 0, 1} other than (0, 0), and the current tile is not among them; for
\* indices that are not finite it is empty.
C17_Neighbours ==
  result.fn = "neighborSquares" =>
    LET index == IndexOf(arg.value)
        n == result.value.neighborSquares
        ids == { n[i].id : i \in DOMAIN n }
    IN  IF IsFiniteIndex(index)
        THEN /\ Len(n) = 8
             /\ Cardinality(ids) = 8
             /\ ids = { gridIndicesToSquare(index[1] + dx, index[2] + dy).id :
                          dx \in -1..1, dy \in -1..1 }
                        \ { gridIndicesToSquare(index[1], index[2]).id }
             /\ result.value.currentSquare.id \notin ids
        ELSE n = << >>

C17_Witness ==
  /\ result.fn = "neighborSquares"
  /\ IndexOf(arg.value) = << -1, 0 >>
  /\ Len(result.value.neighborSquares) = 8

\* C19: a sample is applied as a whole: in every state another handler can
\* run in, the record of the tile of the last position carries the time of
\* the last update as its lastEnterTime, no record is newer than the last
\* update, and every record is stored under the id of its square.
C19_NoPartialSample ==
  capturedSquaresRef # << >> =>
    /\ lastPositionRef # << >>
    /\ MapHas(capturedSquaresRef, TileOf(lastPositionRef[1]))
    /\ MapGet(capturedSquaresRef, TileOf(lastPositionRef[1])).lastEnterTime
         = lastUpdateTimeRef
    /\ \A i \in DOMAIN capturedSquaresRef :
         /\ capturedSquaresRef[i].lastEnterTime <= lastUpdateTimeRef
         /\ capturedSquaresRef[i].id = capturedSquaresRef[i].square.id
         /\ capturedSquaresRef[i].durationSeconds
              <= lastUpdateTimeRef - T0

C19_Witness ==
  /\ ev.op = "sample"
  /\ isRunningRef
  /\ pendingDialogs > 0
  /\ \E i \in DOMAIN capturedSquaresRef :
       /\ capturedSquaresRef[i].durationSeconds > 0
       /\ capturedSquaresRef[i].distanceMeters > 0

\* ----------------------------------------------- properties of the Lambdas
\* The change of the balance an invocation is to make.
Delta(inv) ==
  CASE inv.handler = "platformtouser" -> inv.amount
    [] inv.handler = "usertoplatform" -> -inv.amount
    [] inv.handler = "receiveusdc" -> ReceivedAmount(inv.sig)
    [] OTHER -> 0

RECURSIVE SumOfChanges(_)
\* The changes of the invocations up to n that returned 200.
SumOfChanges(n) ==
  IF n = 0 THEN 0
  ELSE SumOfChanges(n - 1)
         + (IF lam[n].statusCode = 200 THEN Delta(lam[n]) ELSE 0)

\* C20: the write of a handler stores the balance it read earlier plus its
\* own change, whatever the balance has become since: nothing locks the
\* attribute or compares it between the read and the write.
C20_StaleWrite ==
  [][ \A i \in Invocations :
        (lam[i].pc = "update" /\ lam'[i].pc = "done")
          => coinBalance' = lam[i].previousBalance + Delta(lam[i]) ]_allVars

\* Two invocations read the same balance, both return 200, and the balance
\* holds the change of one of them only.
C20_Witness ==
  /\ \A i \in Invocations : lam[i].pc \in { "idle", "done" }
  /\ \E i, j \in Invocations :
       /\ i # j
       /\ lam[i].statusCode = 200
       /\ lam[j].statusCode = 200
       /\ lam[i].previousBalance = lam[j].previousBalance
       /\ coinBalance = lam[j].newBalance
  /\ coinBalance # InitialBalance + SumOfChanges(MaxInvocations)

\* C21: receiveusdc keeps no record of the signatures it has credited: an
\* invocation whose transaction is on the chain with a positive amount for
\* the user goes on to write the balance it read plus that amount, also
\* when an earlier invocation with the same signature has returned 200.
C21_Replay ==
  [][ \A i \in Invocations :
        (/\ lam[i].handler = "receiveusdc"
         /\ lam[i].pc = "getParsedTransaction"
         /\ lam'[i].pc # "getParsedTransaction"
         /\ lam[i].sig \in DOMAIN Chain
         /\ Chain[lam[i].sig] > 0)
          => /\ lam'[i].pc = "update"
             /\ lam'[i].newBalance
                  = lam[i].previousBalance + Chain[lam[i].sig] ]_allVars

\* Two requests with the same signature, one after the other, both return
\* 200 and the balance has grown by the amount twice.
C21_Witness ==
  /\ MaxInvocations >= 2
  /\ lam[1].handler = "receiveusdc" /\ lam[1].statusCode = 200
  /\ lam[2].handler = "receiveusdc" /\ lam[2].statusCode = 200
  /\ lam[1].sig = lam[2].sig
  /\ lam[2].previousBalance = lam[1].newBalance
  /\ coinBalance = InitialBalance + 2 * Chain[lam[1].sig]

\* The handlers that move tokens: platform-to-user and user-to-platform.
TransferHandlers == { "platformtouser", "usertoplatform" }

\* C29: a user-to-platform request whose amount exceeds the balance read
\* from Cognito returns 400 and neither transfers nor writes; and the
\* stored balance is never negative (in every execution, so in particular
\* in those whose requests do not overlap).
C29_InsufficientBalance ==
  /\ [](coinBalance >= 0)
  /\ [][ \A i \in Invocations :
           (/\ lam[i].handler = "usertoplatform"
            /\ lam[i].pc = "getUser"
            /\ lam'[i].pc # "getUser"
            /\ lam'[i].statusCode # 500
            /\ solanaWallet
            /\ lam[i].amount > coinBalance)
             => /\ lam'[i].pc = "done"
                /\ lam'[i].statusCode = 400
                /\ lam'[i].txSig = ""
                /\ coinBalance' = coinBalance
                /\ transferred' = transferred ]_allVars

\* A request for more than the balance it read has returned 400, and
\* neither the balance nor the tokens have moved.
C29_Witness ==
  \E i \in DOMAIN lam :
    /\ lam[i].handler = "usertoplatform"
    /\ lam[i].statusCode = 400
    /\ lam[i].previousBalance > 0
    /\ lam[i].amount > lam[i].previousBalance
    /\ lam[i].txSig = ""
    /\ coinBalance = lam[i].previousBalance
    /\ transferred = 0

\* C30: in the two transfer handlers a step of an invocation changes the
\* stored balance only when its transfer has returned, and that step is
\* the one that returns 200; a step that ends the invocation with 400,
\* 401, 404 or an error leaves the stored balance as it was.
C30_WriteAfterTransfer ==
  [][ \A i \in Invocations :
        (lam'[i] # lam[i] /\ lam'[i].handler \in TransferHandlers)
          => /\ lam[i].txSig = "" => coinBalance' = coinBalance
             /\ lam'[i].statusCode # 200 => coinBalance' = coinBalance
             /\ lam'[i].statusCode = 200 => lam[i].txSig = "tx"
             /\ lam'[i].pc = "update" => lam'[i].txSig = "tx" ]_allVars

\* One invocation has transferred and written its balance; a later one
\* read that balance, failed in the transfer and left it as it was.
C30_Witness ==
  \E i, j \in DOMAIN lam :
    /\ i < j
    /\ lam[i].handler \in TransferHandlers
    /\ lam[i].statusCode = 200
    /\ lam[i].txSig = "tx"
    /\ lam[j].handler \in TransferHandlers
    /\ lam[j].statusCode = 500
    /\ lam[j].txSig = ""
    /\ lam[j].previousBalance = lam[i].newBalance
    /\ lam[j].newBalance # lam[j].previousBalance
    /\ coinBalance = lam[i].newBalance

RECURSIVE LedgerDistance(_)
\* The sum of distanceMeters over the records of the ledger.
LedgerDistance(m) ==
  IF m = << >> THEN 0
  ELSE m[Len(m)].distanceMeters + LedgerDistance(SubSeq(m, 1, Len(m) - 1))

RECURSIVE LedgerDuration(_)
\* The sum of durationSeconds over the records of the ledger.
LedgerDuration(m) ==
  IF m = << >> THEN 0
  ELSE m[Len(m)].durationSeconds + LedgerDuration(SubSeq(m, 1, Len(m) - 1))

\* C22: the total distance of the run equals the sum of distanceMeters over
\* the records of the ledger: a sample adds its accepted delta to both and
\* a rejected delta to neither, and a run start sets both to zero.
C22_DistanceAccounted ==
  totalDistance = LedgerDistance(capturedSquaresRef)

\* A delta was accepted in one tile, the next sample entered another tile
\* with a delta that was rejected: the total is the accepted delta alone.
C22_Witness ==
  /\ isRunningRef
  /\ Len(capturedSquaresRef) = 2
  /\ capturedSquaresRef[1].distanceMeters > 0
  /\ capturedSquaresRef[2].distanceMeters = 0
  /\ ev.op = "sample"
  /\ ev.raw >= JUMP_THRESHOLD_M
  /\ totalDistance = capturedSquaresRef[1].distanceMeters

\* The time the current run was started, as the ledger accounts for it.
RunStarted == lastUpdateTimeRef - LedgerDuration(capturedSquaresRef)

\* C23: the sum of durationSeconds over the records equals the time from
\* the run start to the last processed sample: a run start leaves an empty
\* ledger and the start time in lastUpdateTimeRef, a processed sample adds
\* the interval since the previous update to the record of the tile of the
\* new sample and to no other, and the time of that sample becomes the
\* last update; no other step changes the sum or the last update.
C23_DurationAccounted ==
  [][ /\ IF runId' # runId
         THEN /\ capturedSquaresRef' = << >>
              /\ lastUpdateTimeRef' = clock
         ELSE IF mounted /\ mounted'
         THEN RunStarted' = RunStarted
         ELSE RunStarted' = 0 /\ capturedSquaresRef' = << >>
      /\ (ev'.op = "sample" /\ isRunningRef)
           => LET position == ev'.pos[1]
                  id == latLngToGridSquare(position.latitude,
                                           position.longitude).id
                  before == IF MapHas(capturedSquaresRef, id)
                            THEN MapGet(capturedSquaresRef, id).durationSeconds
                            ELSE 0
              IN  /\ lastUpdateTimeRef' = clock
                  /\ MapHas(capturedSquaresRef', id)
                  /\ MapGet(capturedSquaresRef', id).durationSeconds
                       = before + (clock - lastUpdateTimeRef)
                  /\ \A k \in DOMAIN capturedSquaresRef :
                       capturedSquaresRef[k].id # id
                         => capturedSquaresRef'[k].durationSeconds
                              = capturedSquaresRef[k].durationSeconds ]_vars

\* A run started at T0; the sample a second later was credited the second
\* in its own tile, after an earlier sample in another tile.
C23_Witness ==
  /\ isRunningRef
  /\ Len(capturedSquaresRef) = 2
  /\ capturedSquaresRef[1].durationSeconds = 0
  /\ capturedSquaresRef[2].durationSeconds = TIMER_INTERVAL_MS
  /\ lastUpdateTimeRef = clock
  /\ RunStarted = clock - TIMER_INTERVAL_MS

\* C24: the squares on display are those of the ledger, one per key and in
\* the order of the keys.
C24_DisplayMatchesLedger ==
  /\ Len(capturedSquaresDisplay) = Len(capturedSquaresRef)
  /\ \A i \in DOMAIN capturedSquaresRef :
       /\ capturedSquaresDisplay[i] = capturedSquaresRef[i].square
       /\ capturedSquaresDisplay[i].id = capturedSquaresRef[i].id
       /\ \A j \in DOMAIN capturedSquaresRef :
            capturedSquaresRef[i].id = capturedSquaresRef[j].id => i = j

\* A sample has entered a second tile: two squares are shown, the one of
\* the sample last.
C24_Witness ==
  /\ Len(capturedSquaresRef) = 2
  /\ Len(capturedSquaresDisplay) = 2
  /\ capturedSquaresDisplay[1].id # capturedSquaresDisplay[2].id
  /\ ev.op = "sample"
  /\ latLngToGridSquare(ev.pos[1].latitude, ev.pos[1].longitude).id
       = capturedSquaresDisplay[2].id

\* The records can be submitted: "Stop & Claim" is rendered and enabled, or
\* a "Finish Run?" alert is open.
CanSubmit ==
  /\ mounted
  /\ \/ isRunning /\ ~isSubmitting
     \/ pendingDialogs > 0

\* C28: when the POST of the component on screen fails, the ledger is kept
\* and its records can be submitted again without a run start that clears
\* them.
C28_Claimed ==
  [][ \A i \in DOMAIN inflight :
        (/\ ~inflight[i].orphan
         /\ inflight' = RemoveAt(inflight, i)
         /\ ev'.op = "response"
         /\ ev'.alert = "Error")
          => /\ capturedSquaresRef' = capturedSquaresRef
             /\ capturedSquaresRef' # << >>
             /\ CanSubmit' ]_vars

\* C25: useTerritories does not stay loading for ever: whenever loading is
\* true it becomes false again, given that every request gets its answer.
C25_Claimed == loading ~> ~loading

\* C27: refresh() with coordinates at hand issues a request, whatever the
\* last queried key is.
C27_Claimed ==
  [][ (nRefresh' = nRefresh + 1 /\ coords # << >>)
        => Len(requests') = Len(requests) + 1 ]_allVars

\* C26: of the subscriptions a component created at most one is active,
\* and once the cleanup of an effect has run, its subscription is not
\* active and its handler is not called any more.
C26_Claimed ==
  /\ Cardinality({ i \in DOMAIN starts : starts[i].pc = "subscribed" }) <= 1
  /\ \A i \in DOMAIN starts :
       starts[i].cleaned
         => starts[i].pc # "subscribed" /\ ~starts[i].late
====
